---- MODULE Spec2Model ----
(***************************************************************************)
(* Word-embedding storage benchmarks: the six notebooks (LevelDB, MongoDB, *)
(* MySQL, Postgres, file-based SQLite, in-memory SQLite) executed cell by  *)
(* cell.  Each notebook has the generator embeddings(), the numpy codec    *)
(* adapt_array / convert_array, a single-run write cell, a single-run read *)
(* cell and the sweep loop over counts.  The backend is modelled as the    *)
(* list of rows it holds.  CodecSpec and GenSpec call the codec and the    *)
(* generator on their own, over arguments drawn from bounded sets.         *)
(***************************************************************************)
EXTENDS Integers, Sequences, FiniteSets, TLC

VARIABLES
    nb,           \* the notebook that is executed
    pc,           \* position of the execution (cell or sweep phase)
    runs,         \* how many times the single-run write cell was executed
    ci,           \* 1-based position of c in counts (0 before the sweep)
    idx,          \* idx of the running embeddings() generator
    n,            \* n of the running embeddings() generator
    conn,         \* TRUE while the connection is open
    store,        \* rows held by the backend, in insertion order
    gen,          \* the (key, emb) pair the generator yielded last
    last,         \* the last backend operation and what the loop body did with it
    write_times,  \* list write_times
    read_times,   \* list read_times
    db_sizes,     \* list db_sizes
    wkeys,        \* keys put in the current sweep iteration, in order
    rkeys,        \* keys looked up in the current sweep iteration, in order
    prev_keys,    \* keys the backend held when the last reset was issued
    failed,       \* TRUE once a backend operation has failed
    after,        \* backend operations issued after a failure
    trace,        \* timer and backend events of the current sweep iteration, in order
    now,          \* what time.time() returns
    start_time_write,  \* variable start_time_write
    start_time_read,   \* variable start_time_read
    wput,         \* the values put in the current sweep iteration, aligned with wkeys
    arg_array,    \* the argument of an adapt_array call made on its own
    arr,          \* what that adapt_array call returned
    arg_blob,     \* the argument of a convert_array call made on its own
    dec,          \* what that convert_array call returned
    dim,          \* dim of an embeddings(n, dim) call made on its own
    yielded       \* per invocation of that call, the (key, length) of each item yielded

\* the variables of the calls made on their own, outside the notebook's cells
\* the clock and the two start times
cvars == <<now, start_time_write, start_time_read>>

fvars == <<arg_array, arr, arg_blob, dec, dim, yielded>>

vars == <<nb, pc, runs, ci, idx, n, conn, store, gen, last, write_times,
          read_times, db_sizes, wkeys, rkeys, prev_keys, failed, after, trace,
          now, start_time_write, start_time_read, wput,
          arg_array, arr, arg_blob, dec, dim, yielded>>

-----------------------------------------------------------------------------
(* Bounds of the model *)

\* greatest element bit pattern
MaxVal == 1
\* dim of embeddings() (300 in the notebooks)
Dim == 1
\* default n of embeddings() in the notebooks where it is 1000
DefaultN == 2
\* executions of the single-run write cell
MaxCellRuns == 2
\* longest array handed to adapt_array when it is called on its own
MaxArrayLen == 2
\* largest n and dim of embeddings(n, dim) when it is called on its own
MaxGenN == 3
MaxGenDim == 2
\* invocations of embeddings(n, dim) with the same arguments
MaxInvocations == 2
\* greatest value of the clock
MaxNow == 1

(* Constants of the numpy .npy format written by numpy.save *)
NpyMagic == 147
ElemBytes == 8
ByteBase == 256
\* bytes of one character of a '<U1' array (UTF-32)
StrBytes == 4

Notebooks == {"leveldb", "mongodb", "mysql", "postgres", "sqlite_file", "sqlite_mem"}

\* counts of the sweep cell: sizes below and above the default n
Counts == <<1, 3>>

\* n=1000 in four notebooks, n=10 in the Postgres and file-based SQLite ones
DefaultNOf(b) == IF b \in {"postgres", "sqlite_file"} THEN DefaultN - 1 ELSE DefaultN

-----------------------------------------------------------------------------
(* str(idx) *)

Digit == <<"0", "1", "2", "3", "4", "5", "6", "7", "8", "9">>

RECURSIVE Str(_)
Str(i) == IF i < 10 THEN Digit[i + 1] ELSE Str(i \div 10) \o Digit[(i % 10) + 1]

\* key.encode(): the bytes object of the key
Encode(k) == "b'" \o k \o "'"

\* the key under which a notebook stores and looks up a record
KeyOf(b, k) == IF b = "leveldb" THEN Encode(k) ELSE k

-----------------------------------------------------------------------------
(* numpy.random.rand(dim) and the generator embeddings(n, dim) *)

\* the vectors rand(d) may return, each element the least or the greatest
\* bit pattern
Vectors(d) == [1..d -> {0, MaxVal}]

\* mutant: while idx <= n
GenHasNextIncl(i, m) == i <= m

\* mutant: a negative n taken for its absolute value
GenHasNextAbs(i, m) == i < m \/ (m < 0 /\ i < 0 - m)

GenHasNext(i, m) == i < m

GenYield(i, d) == {[key |-> Str(i), emb |-> v] : v \in Vectors(d)}

NoGen == [key |-> "", emb |-> <<>>]

\* the pair a read loop binds: the vector is bound to _ (or to an emb that no
\* statement of the loop reads) and dropped
GenKeyOnly(i) == [key |-> Str(i), emb |-> <<>>]

-----------------------------------------------------------------------------
(* The codec: numpy.save into a BytesIO / numpy.load from a BytesIO *)

RECURSIVE ToBytes(_, _)
ToBytes(e, w) == IF w = 0 THEN <<>> ELSE <<e % ByteBase>> \o ToBytes(e \div ByteBase, w - 1)

RECURSIVE FromBytes(_)
FromBytes(bs) == IF bs = <<>> THEN 0 ELSE bs[1] + ByteBase * FromBytes(Tail(bs))

\* the elements of v, w little-endian bytes each
RECURSIVE Payload(_, _)
Payload(v, w) == IF v = <<>> THEN <<>> ELSE ToBytes(Head(v), w) \o Payload(Tail(v), w)

\* the header numpy.save writes: magic, descr (here the element width), shape
NpyHeader(w, cnt) == <<NpyMagic, w, cnt>>

\* mutant: out.seek(0) left out, out.read() starts at the end of the stream
adapt_array_noseek(array) == <<>>

\* the header followed by the little-endian float64 elements
adapt_array(array) == NpyHeader(ElemBytes, Len(array)) \o Payload(array, ElemBytes)

SaveError == [ok |-> FALSE, bytes |-> <<>>]

\* adapt_array called with any argument x = [kind, items]: numpy.save takes
\* numpy.asanyarray(x).  A float array is written as above, a list of
\* 1-character strings as a '<U1' array, and a generator becomes an object
\* array whose pickling raises TypeError
numpy_save(x) ==
    CASE x.kind = "float" -> [ok |-> TRUE, bytes |-> adapt_array(x.items)]
      [] x.kind = "str" ->
            [ok |-> TRUE,
             bytes |-> NpyHeader(StrBytes, Len(x.items)) \o Payload(x.items, StrBytes)]
      [] OTHER -> SaveError

DecodeError == [ok |-> FALSE, vec |-> <<>>]

\* mutant: the elements that are there are returned, however many the header
\* declares
convert_array_available(blob) ==
    LET bs == IF blob.some THEN blob.bytes ELSE <<>> IN
    IF Len(bs) < 3 \/ bs[1] # NpyMagic THEN DecodeError
    ELSE LET w == bs[2]
             body == SubSeq(bs, 4, Len(bs))
             cnt == Len(body) \div w IN
         [ok |-> TRUE,
          vec |-> [i \in 1..cnt |-> FromBytes(SubSeq(body, (i - 1) * w + 1, i * w))]]

\* blob is [some |-> BOOLEAN, bytes |-> ...]; io.BytesIO(None) is an empty
\* stream.  numpy.load raises when the header is cut short or is not an .npy
\* header, and when fewer bytes follow than the header declares
convert_array(blob) ==
    LET bs == IF blob.some THEN blob.bytes ELSE <<>> IN
    IF Len(bs) < 3 \/ bs[1] # NpyMagic THEN DecodeError
    ELSE LET w == bs[2]
             cnt == bs[3]
             body == SubSeq(bs, 4, Len(bs)) IN
         IF Len(body) < cnt * w THEN DecodeError
         ELSE [ok |-> TRUE,
               vec |-> [i \in 1..cnt |-> FromBytes(SubSeq(body, (i - 1) * w + 1, i * w))]]

\* the value a notebook binds to the embedding column / field of a record:
\* the codec's bytes, or in the Postgres notebook the Json adapter's list
\* (addapt_numpy_ndarray, registered for numpy.ndarray)
addapt_numpy_ndarray(numpy_ndarray) == [kind |-> "json", val |-> numpy_ndarray]

\* mutant: every notebook binds the list of the Json adapter
AdaptJsonEverywhere(b, emb) == addapt_numpy_ndarray(emb)

Adapt(b, emb) ==
    IF b = "postgres" THEN addapt_numpy_ndarray(emb)
    ELSE [kind |-> "npy", val |-> adapt_array(emb)]

-----------------------------------------------------------------------------
(* The backends *)

KeysOf(s) == {s[i].key : i \in 1..Len(s)}

\* positions of the rows stored under the stored key sk
RowsAt(s, sk) == {i \in 1..Len(s) : s[i].key = sk}

Matches(b, s, k) == RowsAt(s, KeyOf(b, k))

\* mutant: connection.put adds a row like INSERT does
PutAppends(b, s, k, emb) ==
    LET a == Adapt(b, emb) IN
    Append(s, [key |-> KeyOf(b, k), kind |-> a.kind, val |-> a.val])

\* connection.put overwrites the key; insert_one and INSERT add a row (the
\* collection and the tables declare no unique key)
Put(b, s, k, emb) ==
    LET a == Adapt(b, emb)
        row == [key |-> KeyOf(b, k), kind |-> a.kind, val |-> a.val] IN
    IF b = "leveldb"
    THEN SelectSeq(s, LAMBDA r : r.key # row.key) \o <<row>>
    ELSE Append(s, row)

NoneResult == [some |-> FALSE, kind |-> "none", bytes |-> <<>>]

\* connection.get / find_one / SELECT + fetchone: None when no row matches,
\* otherwise one matching row (which one is not specified when several match)
GetResults(b, s, k) ==
    IF Matches(b, s, k) = {} THEN {NoneResult}
    ELSE {[some |-> TRUE, kind |-> s[i].kind, bytes |-> s[i].val] : i \in Matches(b, s, k)}

\* mutant: the reset leaves the rows in place
ResetKeeps(b, s) == s

\* rmtree + plyvel.DB, delete_many({}), DROP TABLE + CREATE TABLE
Reset(b, s) == <<>>

\* du -s of the directory / os.path.getsize of the file
RECURSIVE Footprint(_)
Footprint(s) == IF s = <<>> THEN 0 ELSE Len(Head(s).val) + Footprint(Tail(s))

-----------------------------------------------------------------------------
(* What a read loop body does with the result r of its get *)

NotDecoded == [ok |-> FALSE, vec |-> <<>>]

Body(decoded, emb, asserted, raised) ==
    [decoded |-> decoded, emb |-> emb, asserted |-> asserted, raised |-> raised]

\* convert_array on the fetched value, called by the loop body or, in the
\* SQLite notebooks, by the registered converter of the column type
Converted(r, asserted) ==
    LET e == convert_array(r) IN
    Body(TRUE, e, IF e.ok THEN asserted ELSE "none", ~e.ok)

Handle(b, loop, r) ==
    CASE b \in {"leveldb", "mongodb"} ->
            \* leveldb: convert_array(None) raises; mongodb: obj['emb'] raises on None
            IF b = "mongodb" /\ ~r.some THEN Body(FALSE, NotDecoded, "none", TRUE)
            ELSE Converted(r, "type")
      [] b = "mysql" ->
            IF ~r.some THEN Body(FALSE, NotDecoded, "none", TRUE)
            ELSE Converted(r, "none")
      [] b = "postgres" /\ loop = "cell_read" ->
            \* numpy.array(data[1]); assert type; assert len(value) == 300
            IF ~r.some THEN Body(FALSE, NotDecoded, "none", TRUE)
            ELSE Body(FALSE, [ok |-> TRUE, vec |-> r.bytes], "count", Len(r.bytes) # Dim)
      [] b = "postgres" /\ loop = "reading" ->
            Body(FALSE, NotDecoded, "none", FALSE)
      [] b = "sqlite_file" /\ loop = "cell_read" ->
            \* assert(type(data[1]) is numpy.ndarray)
            IF ~r.some THEN Body(FALSE, NotDecoded, "none", TRUE)
            ELSE Converted(r, "type")
      [] OTHER ->
            \* sqlite sweeps and the in-memory cell: data is not used
            IF ~r.some THEN Body(FALSE, NotDecoded, "none", FALSE)
            ELSE Converted(r, "none")

\* mutant: the read loop body puts the vector it was handed
ReadBodyPuts(b, s, g) == Put(b, s, g.key, g.emb)

\* what one pass of a read loop body leaves of the rows s: connection.get,
\* find_one and SELECT change nothing, and the body issues no put
ReadBody(b, s, g) == s

NoOp == [op |-> "none", key |-> "", some |-> FALSE, bytes |-> <<>>, decoded |-> FALSE,
         emb |-> NotDecoded, asserted |-> "none", raised |-> FALSE]

PutOp(k, a) == [NoOp EXCEPT !.op = "put", !.key = k, !.some = TRUE, !.bytes = a.val]

GetOp(k, r, h) ==
    [op |-> "get", key |-> k, some |-> r.some, bytes |-> r.bytes, decoded |-> h.decoded,
     emb |-> h.emb, asserted |-> h.asserted, raised |-> h.raised]

ResetOp == [NoOp EXCEPT !.op = "reset"]

-----------------------------------------------------------------------------
(* The timer and backend statements of the sweep body, in statement order *)

\* mutant: start_time_write taken before the reset statements
PrepareEventsTimerFirst == <<"start_write", "reset">>

\* the reset statements, then start_time_write = time.time()
PrepareEvents == <<"reset", "start_write">>

\* mutant: the commit after the INSERT is left out
PutEventsNoCommit(b) == <<"put">>

\* one pass of the write loop body: connection.put / insert_one, or
\* cursor.execute(INSERT) followed by connection.commit() in the MySQL,
\* Postgres and file-based SQLite notebooks
PutEvents(b) ==
    IF b \in {"mysql", "postgres", "sqlite_file"} THEN <<"put", "commit">> ELSE <<"put">>

\* write_times.append(time.time() - start_time_write), then
\* start_time_read = time.time()
WriteEndEvents == <<"stop_write", "start_read">>

\* read_times.append(time.time() - start_time_read)
ReadEndEvents == <<"stop_read">>

\* what follows read_times.append in the loop body: connection.close() and
\* du (LevelDB), os.path.getsize (file-based SQLite), nothing elsewhere
MeasureEvents(b) ==
    CASE b = "leveldb" -> <<"close", "measure">>
      [] b = "sqlite_file" -> <<"measure">>
      [] OTHER -> <<>>

\* no adapt_array / convert_array call made on its own
NoArray == [kind |-> "none", items |-> <<>>]

NoBlob == [some |-> FALSE, bytes |-> <<>>]

-----------------------------------------------------------------------------
(* The notebook, cell by cell *)

Init ==
    /\ nb \in Notebooks
    /\ pc = "connected"
    /\ runs = 0
    /\ ci = 0
    /\ idx = 0
    /\ n = 0
    /\ conn = TRUE
    /\ store = <<>>
    /\ gen = NoGen
    /\ last = NoOp
    /\ write_times = <<>>
    /\ read_times = <<>>
    /\ db_sizes = <<>>
    /\ wkeys = <<>>
    /\ rkeys = <<>>
    /\ prev_keys = {}
    /\ failed = FALSE
    /\ after = 0
    /\ trace = <<>>
    /\ now = 0
    /\ start_time_write = 0
    /\ start_time_read = 0
    /\ wput = <<>>
    /\ arg_array = NoArray
    /\ arr = SaveError
    /\ arg_blob = NoBlob
    /\ dec = DecodeError
    /\ dim = Dim
    /\ yielded = <<>>

\* a backend operation is issued: counted when an earlier one has failed
Issue == after' = IF failed THEN after + 1 ELSE after

\* mutant: the read loop is left out of the loop body
NextPhaseNoRead(p) ==
    CASE p = "preparing" -> "writing"
      [] p = "writing" -> "measuring"
      [] p = "reading" -> "measuring"
      [] p = "measuring" -> "preparing"

\* mutant: the read loop placed before the write loop
NextPhaseReadFirst(p) ==
    CASE p = "preparing" -> "reading"
      [] p = "reading" -> "writing"
      [] p = "writing" -> "measuring"
      [] p = "measuring" -> "preparing"

\* the body of the sweep loop, statement group by statement group
NextPhase(p) ==
    CASE p = "preparing" -> "writing"
      [] p = "writing" -> "reading"
      [] p = "reading" -> "measuring"
      [] p = "measuring" -> "preparing"

\* the n of the generator of the sweep's read loop: embeddings(c), but
\* embeddings() in the in-memory SQLite notebook
ReadN(b, c) == IF b = "sqlite_mem" THEN DefaultNOf(b) ELSE c

\* one value appended to write_times / read_times: the elapsed time t of the
\* loop that ran for size c over ops generator items
TimeOf(c, ops, t) == [c |-> c, ops |-> ops, t |-> t]

\* mutant: the list is assigned instead of appended to
AssignTime(times, c, ops, t) == <<TimeOf(c, ops, t)>>

\* mutant: the value is inserted at the front of the list
PrependTime(times, c, ops, t) == <<TimeOf(c, ops, t)>> \o times

AppendTime(times, c, ops, t) == Append(times, TimeOf(c, ops, t))

\* what starting the single-run write cell does: for key, emb in embeddings()
EnterWriteCell ==
    /\ pc' = "cell_write"
    /\ runs' = runs + 1
    /\ idx' = 0
    /\ n' = DefaultNOf(nb)
    /\ UNCHANGED trace
    /\ UNCHANGED cvars
    /\ UNCHANGED wput
    /\ UNCHANGED fvars
    /\ UNCHANGED <<nb, ci, conn, store, gen, last, write_times, read_times, db_sizes,
                   wkeys, rkeys, prev_keys, failed, after>>

\* the single-run write cell, in the notebook's top-to-bottom order
StartWriteCell ==
    /\ pc = "connected"
    /\ EnterWriteCell

\* the single-run write cell executed again, with no reset in between
RerunWriteCell ==
    /\ pc = "written"
    /\ runs < MaxCellRuns
    /\ EnterWriteCell

\* one iteration of a write loop (single-run cell or sweep): adapt and put
PutStep ==
    /\ pc \in {"cell_write", "writing"}
    /\ GenHasNext(idx, n)
    /\ \E g \in GenYield(idx, Dim) :
          /\ gen' = g
          /\ store' = Put(nb, store, g.key, g.emb)
          /\ last' = PutOp(g.key, Adapt(nb, g.emb))
          /\ wkeys' = IF pc = "writing" THEN Append(wkeys, g.key) ELSE wkeys
          /\ wput' = IF pc = "writing"
                     THEN Append(wput, [val |-> Adapt(nb, g.emb).val, emb |-> g.emb])
                     ELSE wput
    /\ idx' = idx + 1
    /\ Issue
    /\ trace' = IF pc = "writing" THEN trace \o PutEvents(nb) ELSE trace
    /\ UNCHANGED cvars
    /\ UNCHANGED fvars
    /\ UNCHANGED <<nb, pc, runs, ci, n, conn, write_times, read_times, db_sizes,
                   rkeys, prev_keys, failed>>

\* the put (or its commit) raises: the exception leaves the cell
PutFails ==
    /\ pc \in {"cell_write", "writing"}
    /\ GenHasNext(idx, n)
    /\ \E g \in GenYield(idx, Dim) : gen' = g
    /\ pc' = "aborted"
    /\ failed' = TRUE
    /\ Issue
    /\ trace' = IF pc = "writing" THEN Append(trace, "put") ELSE trace
    /\ UNCHANGED cvars
    /\ UNCHANGED wput
    /\ UNCHANGED fvars
    /\ UNCHANGED <<nb, runs, ci, idx, n, conn, store, last, write_times, read_times,
                   db_sizes, wkeys, rkeys, prev_keys>>

CellWriteEnd ==
    /\ pc = "cell_write"
    /\ ~GenHasNext(idx, n)
    /\ pc' = "written"
    /\ UNCHANGED trace
    /\ UNCHANGED cvars
    /\ UNCHANGED wput
    /\ UNCHANGED fvars
    /\ UNCHANGED <<nb, runs, ci, idx, n, conn, store, gen, last, write_times, read_times,
                   db_sizes, wkeys, rkeys, prev_keys, failed, after>>

\* single-run read cell: for key, _ in embeddings()
StartReadCell ==
    /\ pc = "written"
    /\ pc' = "cell_read"
    /\ idx' = 0
    /\ n' = DefaultNOf(nb)
    /\ UNCHANGED trace
    /\ UNCHANGED cvars
    /\ UNCHANGED wput
    /\ UNCHANGED fvars
    /\ UNCHANGED <<nb, runs, ci, conn, store, gen, last, write_times, read_times,
                   db_sizes, wkeys, rkeys, prev_keys, failed, after>>

\* one iteration of a read loop (single-run cell or sweep): get, and what the
\* body does with the result
GetStep ==
    /\ pc \in {"cell_read", "reading"}
    /\ GenHasNext(idx, n)
    /\ \E r \in GetResults(nb, store, GenKeyOnly(idx).key) :
          LET g == GenKeyOnly(idx)
              h == Handle(nb, pc, r) IN
          /\ gen' = g
          /\ store' = ReadBody(nb, store, g)
          /\ last' = GetOp(g.key, r, h)
          /\ rkeys' = IF pc = "reading" THEN Append(rkeys, g.key) ELSE rkeys
          /\ pc' = IF h.raised THEN "aborted" ELSE pc
          /\ idx' = IF h.raised THEN idx ELSE idx + 1
    /\ Issue
    /\ trace' = IF pc = "reading" THEN Append(trace, "get") ELSE trace
    /\ UNCHANGED cvars
    /\ UNCHANGED wput
    /\ UNCHANGED fvars
    /\ UNCHANGED <<nb, runs, ci, n, conn, write_times, read_times, db_sizes,
                   wkeys, prev_keys, failed>>

\* the get raises: the exception leaves the cell
GetFails ==
    /\ pc \in {"cell_read", "reading"}
    /\ GenHasNext(idx, n)
    /\ gen' = GenKeyOnly(idx)
    /\ pc' = "aborted"
    /\ failed' = TRUE
    /\ Issue
    /\ trace' = IF pc = "reading" THEN Append(trace, "get") ELSE trace
    /\ UNCHANGED cvars
    /\ UNCHANGED wput
    /\ UNCHANGED fvars
    /\ UNCHANGED <<nb, runs, ci, idx, n, conn, store, last, write_times, read_times,
                   db_sizes, wkeys, rkeys, prev_keys>>

CellReadEnd ==
    /\ pc = "cell_read"
    /\ ~GenHasNext(idx, n)
    /\ pc' = "cells_done"
    /\ UNCHANGED trace
    /\ UNCHANGED cvars
    /\ UNCHANGED wput
    /\ UNCHANGED fvars
    /\ UNCHANGED <<nb, runs, ci, idx, n, conn, store, gen, last, write_times, read_times,
                   db_sizes, wkeys, rkeys, prev_keys, failed, after>>

\* LevelDB notebook: connection.close() before the sweep cell
CloseCell ==
    /\ nb = "leveldb"
    /\ pc = "cells_done"
    /\ conn' = FALSE
    /\ pc' = "closed"
    /\ UNCHANGED trace
    /\ UNCHANGED cvars
    /\ UNCHANGED wput
    /\ UNCHANGED fvars
    /\ UNCHANGED <<nb, runs, ci, idx, n, store, gen, last, write_times, read_times,
                   db_sizes, wkeys, rkeys, prev_keys, failed, after>>

\* the sweep cell up to the loop header: the lists are created empty
StartSweep ==
    /\ pc = IF nb = "leveldb" THEN "closed" ELSE "cells_done"
    /\ write_times' = <<>>
    /\ read_times' = <<>>
    /\ db_sizes' = <<>>
    /\ ci' = IF Len(Counts) > 0 THEN 1 ELSE 0
    /\ pc' = IF Len(Counts) > 0 THEN "preparing" ELSE "done"
    /\ trace' = <<>>
    /\ UNCHANGED cvars
    /\ UNCHANGED wput
    /\ UNCHANGED fvars
    /\ UNCHANGED <<nb, runs, idx, n, conn, store, gen, last, wkeys, rkeys, prev_keys,
                   failed, after>>

\* what every way of leaving the reset statements for the write loop shares:
\* start_time_write is taken and embeddings(c) is started
EnterWriting ==
    /\ conn' = TRUE
    /\ last' = ResetOp
    /\ idx' = 0
    /\ n' = Counts[ci]
    /\ wkeys' = <<>>
    /\ rkeys' = <<>>
    /\ prev_keys' = KeysOf(store)
    /\ pc' = NextPhase(pc)
    /\ Issue
    /\ trace' = PrepareEvents
    /\ start_time_write' = now
    /\ UNCHANGED <<now, start_time_read>>
    /\ wput' = <<>>
    /\ UNCHANGED fvars
    /\ UNCHANGED <<nb, runs, ci, gen, write_times, read_times, db_sizes>>

\* the reset statements at the head of the loop body succeed
Prepare ==
    /\ pc = "preparing"
    /\ store' = Reset(nb, store)
    /\ failed' = failed
    /\ EnterWriting

\* LevelDB: shutil.rmtree(..., ignore_errors=True) cannot remove the directory;
\* the error is ignored and plyvel.DB opens the database that is still there
RmtreeIgnored ==
    /\ pc = "preparing"
    /\ nb = "leveldb"
    /\ store' = store
    /\ failed' = TRUE
    /\ EnterWriting

\* a reset statement raises (plyvel.DB, delete_many, DROP / CREATE TABLE,
\* commit): the exception leaves the cell
ResetFails ==
    /\ pc = "preparing"
    /\ store' = IF nb = "leveldb" THEN Reset(nb, store) ELSE store
    /\ prev_keys' = KeysOf(store)
    /\ pc' = "aborted"
    /\ failed' = TRUE
    /\ Issue
    /\ trace' = <<"reset">>
    /\ UNCHANGED cvars
    /\ UNCHANGED wput
    /\ UNCHANGED fvars
    /\ UNCHANGED <<nb, runs, ci, idx, n, conn, gen, last, write_times, read_times,
                   db_sizes, wkeys, rkeys>>

\* the write loop is exhausted: write_times.append, start_time_read is taken
\* and the read loop's generator is started
WriteEnd ==
    /\ pc = "writing"
    /\ ~GenHasNext(idx, n)
    /\ write_times' = AppendTime(write_times, Counts[ci], idx, now - start_time_write)
    /\ idx' = 0
    /\ n' = ReadN(nb, Counts[ci])
    /\ pc' = NextPhase(pc)
    /\ trace' = trace \o WriteEndEvents
    /\ start_time_read' = now
    /\ UNCHANGED <<now, start_time_write>>
    /\ UNCHANGED wput
    /\ UNCHANGED fvars
    /\ UNCHANGED <<nb, runs, ci, conn, store, gen, last, read_times, db_sizes, wkeys,
                   rkeys, prev_keys, failed, after>>

\* the read loop is exhausted: read_times.append
ReadEnd ==
    /\ pc = "reading"
    /\ ~GenHasNext(idx, n)
    /\ read_times' = AppendTime(read_times, Counts[ci], idx, now - start_time_read)
    /\ pc' = NextPhase(pc)
    /\ trace' = trace \o ReadEndEvents
    /\ UNCHANGED cvars
    /\ UNCHANGED wput
    /\ UNCHANGED fvars
    /\ UNCHANGED <<nb, runs, ci, idx, n, conn, store, gen, last, write_times, db_sizes,
                   wkeys, rkeys, prev_keys, failed, after>>

\* mutant: the loop is left after its first iteration
HasNextSizeNever(i) == FALSE

\* for c in counts: is there a size after the i-th
HasNextSize(i) == i < Len(Counts)

\* mutant: the loop body does not close the connection
CloseNever(b, c) == c

\* connection.close() at the end of the loop body, in the LevelDB notebook only
Close(b, c) == IF b = "leveldb" THEN FALSE ELSE c

\* mutant: only the LevelDB notebook appends to db_sizes
MeasuresLevelDBOnly(b) == b = "leveldb"

\* the notebooks that append to db_sizes at the end of the loop body
Measures(b) == b \in {"leveldb", "sqlite_file"}

\* the end of the loop body (LevelDB: close and du; file-based SQLite:
\* getsize) and the loop header: next c, or print('DONE')
Measure ==
    /\ pc = "measuring"
    /\ conn' = Close(nb, conn)
    /\ db_sizes' = IF Measures(nb) THEN Append(db_sizes, Footprint(store)) ELSE db_sizes
    /\ IF HasNextSize(ci)
       THEN /\ ci' = ci + 1
            /\ pc' = NextPhase(pc)
       ELSE /\ ci' = ci
            /\ pc' = "done"
    /\ trace' = trace \o MeasureEvents(nb)
    /\ UNCHANGED cvars
    /\ UNCHANGED wput
    /\ UNCHANGED fvars
    /\ UNCHANGED <<nb, runs, idx, n, store, gen, last, write_times, read_times, wkeys,
                   rkeys, prev_keys, failed, after>>

Next ==
    \/ StartWriteCell
    \/ PutStep
    \/ PutFails
    \/ CellWriteEnd
    \/ StartReadCell
    \/ GetStep
    \/ GetFails
    \/ CellReadEnd
    \/ CloseCell
    \/ StartSweep
    \/ Prepare
    \/ RmtreeIgnored
    \/ ResetFails
    \/ WriteEnd
    \/ ReadEnd
    \/ Measure

\* the notebook executed top to bottom, every cell once
Spec == Init /\ [][Next]_vars

\* the same, where the single-run write cell may be executed again
NextRerun ==
    \/ Next
    \/ RerunWriteCell

SpecRerun == Init /\ [][NextRerun]_vars

\* the notebook executed top to bottom by an interpreter that goes on to the
\* next statement for as long as there is one
FairSpec == Spec /\ WF_vars(Next)

-----------------------------------------------------------------------------
(* The system clock read by time.time(), while a timed loop of the sweep runs *)

nonclock == <<nb, pc, runs, ci, idx, n, conn, store, gen, last, write_times,
              read_times, db_sizes, wkeys, rkeys, prev_keys, failed, after, trace,
              start_time_write, start_time_read, wput, fvars>>

\* time passes
Tick ==
    /\ pc \in {"writing", "reading"}
    /\ now < MaxNow
    /\ now' = now + 1
    /\ UNCHANGED nonclock

\* the system clock is set back (time.time() is the wall clock, not a
\* monotonic one)
ClockSetBack ==
    /\ pc \in {"writing", "reading"}
    /\ now > 0
    /\ now' \in 0..(now - 1)
    /\ UNCHANGED nonclock

NextClock ==
    \/ Next
    \/ Tick
    \/ ClockSetBack

\* the notebook executed top to bottom while the clock moves
SpecClock == Init /\ [][NextClock]_vars

-----------------------------------------------------------------------------
(* adapt_array and convert_array called on their own *)

\* no cell of the notebook is executed
NoCell ==
    /\ nb = "leveldb"
    /\ runs = 0
    /\ ci = 0
    /\ conn = FALSE
    /\ store = <<>>
    /\ last = NoOp
    /\ write_times = <<>>
    /\ read_times = <<>>
    /\ db_sizes = <<>>
    /\ wkeys = <<>>
    /\ rkeys = <<>>
    /\ prev_keys = {}
    /\ failed = FALSE
    /\ after = 0
    /\ trace = <<>>
    /\ now = 0
    /\ start_time_write = 0
    /\ start_time_read = 0
    /\ wput = <<>>

nbvars == <<nb, runs, ci, conn, store, last, write_times, read_times, db_sizes, wkeys,
            rkeys, prev_keys, failed, after, trace, now, start_time_write,
            start_time_read, wput>>

\* element bit patterns of one and of more than one byte
CodecElems == {0, 1, ByteBase + 1}

\* code points of 1-character strings
StrElems == {97}

SeqsUpTo(S, l) == UNION {[1..k -> S] : k \in 0..l}

\* the arguments adapt_array is called with: float arrays of any length
\* (zero included), lists of strings, a generator
Arrays ==
    {[kind |-> "float", items |-> v] : v \in SeqsUpTo(CodecElems, MaxArrayLen)}
        \cup {[kind |-> "str", items |-> v] : v \in SeqsUpTo(StrElems, MaxArrayLen)}
        \cup {[kind |-> "generator", items |-> <<>>]}

\* the arguments convert_array is called with, given the bytes bs of an
\* encoded array: bs, bs cut short anywhere, None, bs under a wrong magic
Blobs(bs) ==
    {[some |-> TRUE, bytes |-> SubSeq(bs, 1, k)] : k \in 0..Len(bs)}
        \cup {NoBlob}
        \cup {[some |-> TRUE, bytes |-> [bs EXCEPT ![1] = 0]]}

CodecInit ==
    /\ NoCell
    /\ pc = "codec"
    /\ idx = 0
    /\ n = 0
    /\ gen = NoGen
    /\ arg_array \in Arrays
    /\ arr = SaveError
    /\ arg_blob = NoBlob
    /\ dec = DecodeError
    /\ dim = Dim
    /\ yielded = <<>>

\* arr = adapt_array(array)
CallAdapt ==
    /\ pc = "codec"
    /\ arr' = numpy_save(arg_array)
    /\ pc' = IF arr'.ok THEN "encoded" ELSE "raised"
    /\ UNCHANGED <<nbvars, idx, n, gen, arg_array, arg_blob, dec, dim, yielded>>

\* emb = convert_array(blob)
CallConvert ==
    /\ pc = "encoded"
    /\ \E b \in Blobs(arr.bytes) :
          /\ arg_blob' = b
          /\ dec' = convert_array(b)
    /\ pc' = IF dec'.ok THEN "decoded" ELSE "raised"
    /\ UNCHANGED <<nbvars, idx, n, gen, arg_array, arr, dim, yielded>>

CodecNext ==
    \/ CallAdapt
    \/ CallConvert

CodecSpec == CodecInit /\ [][CodecNext]_vars

-----------------------------------------------------------------------------
(* embeddings(n, dim) called on its own, and called again *)

GenInit ==
    /\ NoCell
    /\ pc = "generating"
    /\ idx = 0
    /\ n \in 0..MaxGenN
    /\ dim \in 0..MaxGenDim
    /\ gen = NoGen
    /\ arg_array = NoArray
    /\ arr = SaveError
    /\ arg_blob = NoBlob
    /\ dec = DecodeError
    /\ yielded = <<<<>>>>

\* next(): yield (str(idx), numpy.random.rand(dim)); idx += 1
GenItem ==
    /\ pc = "generating"
    /\ GenHasNext(idx, n)
    /\ \E g \in GenYield(idx, dim) :
          /\ gen' = g
          /\ yielded' = [yielded EXCEPT ![Len(yielded)] =
                            Append(@, [key |-> g.key, len |-> Len(g.emb)])]
    /\ idx' = idx + 1
    /\ UNCHANGED <<nbvars, pc, n, dim, arg_array, arr, arg_blob, dec>>

\* the generator is exhausted and embeddings(n, dim) is invoked again
GenAgain ==
    /\ pc = "generating"
    /\ ~GenHasNext(idx, n)
    /\ Len(yielded) < MaxInvocations
    /\ idx' = 0
    /\ yielded' = Append(yielded, <<>>)
    /\ UNCHANGED <<nbvars, pc, n, dim, gen, arg_array, arr, arg_blob, dec>>

\* the generator of the last invocation is exhausted
GenStop ==
    /\ pc = "generating"
    /\ ~GenHasNext(idx, n)
    /\ Len(yielded) = MaxInvocations
    /\ pc' = "generated"
    /\ UNCHANGED <<nbvars, idx, n, dim, gen, arg_array, arr, arg_blob, dec, yielded>>

GenNext ==
    \/ GenItem
    \/ GenAgain
    \/ GenStop

GenSpec == GenInit /\ [][GenNext]_vars

\* embeddings(n, dim) for n below zero as well
GenInitAnyN ==
    /\ NoCell
    /\ pc = "generating"
    /\ idx = 0
    /\ n \in (0 - 1)..MaxGenN
    /\ dim \in 0..MaxGenDim
    /\ gen = NoGen
    /\ arg_array = NoArray
    /\ arr = SaveError
    /\ arg_blob = NoBlob
    /\ dec = DecodeError
    /\ yielded = <<<<>>>>

\* the consumer asks for the next item for as long as there is one
FairGenSpec == GenInitAnyN /\ [][GenNext]_vars /\ WF_vars(GenNext)

-----------------------------------------------------------------------------
(* Properties of the sweep *)

SweepPhases == {"preparing", "writing", "reading", "measuring"}

\* the keys "0" .. "c-1" in increasing order
KeysUpTo(c) == [i \in 1..c |-> Str(i - 1)]

PhaseOrderStep ==
    (pc' # pc /\ (pc \in SweepPhases \/ pc' \in SweepPhases \/ pc' = "done")) =>
        \/ pc \in SweepPhases /\ pc' = "aborted"
        \/ pc \notin SweepPhases /\ pc' = "preparing" /\ ci' = 1
        \/ pc = "preparing" /\ pc' = "writing" /\ ci' = ci
        \/ pc = "writing" /\ pc' = "reading" /\ ci' = ci
        \/ pc = "reading" /\ pc' = "measuring" /\ ci' = ci
        \/ pc = "measuring" /\ pc' = "preparing" /\ ci < Len(Counts) /\ ci' = ci + 1
        \/ pc = "measuring" /\ pc' = "done" /\ ci = Len(Counts) /\ ci' = ci

\* C1: for every size of the sweep list the sweep goes through Preparing,
\* Writing, Reading and Measuring in exactly that order, the size changing
\* only on the step from Measuring to the next Preparing, and Done is entered
\* only from Measuring of the last size; the only other way out of a phase is
\* the abort of the cell.
C1_PhaseOrder == [][PhaseOrderStep /\ (pc' = pc => ci' = ci)]_vars

\* the last size went through its write loop and its read loop before Done
C1_Witness ==
    /\ pc = "done"
    /\ ci = Len(Counts)
    /\ wkeys = KeysUpTo(Counts[ci])
    /\ Len(rkeys) > 0

\* C2: when the first put of Writing(size) is about to be issued the backend
\* holds zero records.
C2_EmptyAtFirstPut == (pc = "writing" /\ idx = 0) => Len(store) = 0

\* C3: when Reading(size) has ended, the keys looked up are exactly the keys
\* "0" .. "size-1" that Writing(size) wrote, one get per key, in that order.
C3_ReadKeys ==
    pc = "measuring" => (rkeys = wkeys /\ rkeys = KeysUpTo(Counts[ci]))

\* C4: when Writing(size) has ended, one put per key "0" .. "size-1" was
\* issued in increasing order and the backend holds exactly size records,
\* whose keys are those keys.
C4_WrittenRecords ==
    pc = "reading" =>
        /\ wkeys = KeysUpTo(Counts[ci])
        /\ Len(store) = Counts[ci]
        /\ KeysOf(store) = {KeyOf(nb, Str(i)) : i \in 0..(Counts[ci] - 1)}

\* C5: in Reading(size) every get result is decoded and the decoded vector is
\* asserted to have the expected element count before the loop goes on.
C5_CountAsserted ==
    (pc = "reading" /\ last.op = "get") =>
        /\ last.decoded
        /\ last.asserted = "count"
        /\ Len(last.emb.vec) = Dim

\* C6: a get for a key that is absent from the backend aborts the cell; the
\* loop never goes on after a get that found nothing.
C6_AbsentKeyAborts == (last.op = "get" /\ ~last.some) => pc = "aborted"

\* the bytes stored by the most recent put under stored key sk
MostRecent(s, sk) == s[CHOOSE i \in RowsAt(s, sk) : \A j \in RowsAt(s, sk) : j <= i].val

\* C7: the backend holds at most one record per key, and a get that finds
\* the key returns the bytes of the most recent put for that key.
C7_PutOverwrites ==
    /\ \A sk \in KeysOf(store) : Cardinality(RowsAt(store, sk)) = 1
    /\ (last.op = "get" /\ last.some /\ RowsAt(store, KeyOf(nb, last.key)) # {}) =>
          last.bytes = MostRecent(store, KeyOf(nb, last.key))

\* C8: right after the reset of a sweep iteration, no key that was stored
\* before the reset is found in the backend.
C8_ResetClears ==
    (pc = "writing" /\ idx = 0) => \A sk \in prev_keys : RowsAt(store, sk) = {}

\* C9: once a backend reset, put or get has failed the cell is aborted and
\* no further backend operation is issued.
C9_FailureStops == failed => (pc = "aborted" /\ after = 0)

\* C10: at Done, write_times and read_times each hold exactly one entry per
\* size of counts, and the i-th entry of each was recorded by the iteration
\* of the i-th size.
C10_OneEntryPerSize ==
    pc = "done" =>
        /\ Len(write_times) = Len(Counts)
        /\ Len(read_times) = Len(Counts)
        /\ \A i \in 1..Len(Counts) :
              write_times[i].c = Counts[i] /\ read_times[i].c = Counts[i]

C10_Witness ==
    /\ pc = "done"
    /\ Len(write_times) > 1
    /\ write_times[Len(write_times)].c = Counts[Len(Counts)]
    /\ read_times[1].c = Counts[1]

\* what the notebook's own read path rebuilds from a stored value: the list of
\* a jsonb value (numpy.array(data[1])), convert_array of a blob
Decoded(row) ==
    IF row.kind = "json" THEN [ok |-> TRUE, vec |-> row.val]
    ELSE convert_array([some |-> TRUE, bytes |-> row.val])

LastSize == Counts[Len(Counts)]

\* C11: when the sweep has completed, the backend holds exactly the records
\* of the last size of counts: one record per key "0" .. "last-1", no other
\* key, each value decoding to a vector; and the result lists hold one entry
\* per size.
C11_LastSizeOnly ==
    pc = "done" =>
        /\ Len(store) = LastSize
        /\ KeysOf(store) = {KeyOf(nb, Str(i)) : i \in 0..(LastSize - 1)}
        /\ \A i \in 1..Len(store) : Decoded(store[i]).ok /\ Len(Decoded(store[i]).vec) = Dim
        /\ Len(write_times) = Len(Counts)
        /\ Len(read_times) = Len(Counts)

\* a completed sweep whose earlier sizes had stored records of their own
C11_Witness ==
    /\ pc = "done"
    /\ Len(Counts) > 1
    /\ Len(store) = LastSize
    /\ prev_keys # {}

PutInSweep == pc = "writing" /\ wkeys' # wkeys

GetInSweep == pc = "reading" /\ rkeys' # rkeys

\* C12: within one iteration every put precedes every get, and no put of the
\* next size is issued before the read loop of the size before it has ended:
\* a put finds no get of its iteration and the results of all earlier
\* iterations recorded, a get finds the write loop of its iteration ended.
C12_NoOverlap ==
    [][/\ PutInSweep => /\ rkeys = <<>> /\ rkeys' = <<>>
                        /\ Len(write_times) = ci - 1
                        /\ Len(read_times) = ci - 1
       /\ GetInSweep => /\ wkeys' = wkeys
                        /\ Len(write_times) = ci
                        /\ Len(read_times) = ci - 1]_vars

\* a get of the second size, all puts of that size issued before it
C12_Witness ==
    /\ pc = "reading"
    /\ ci = 2
    /\ Len(rkeys) > 0
    /\ wkeys = KeysUpTo(Counts[ci])

Sizes(times) == [i \in 1..Len(times) |-> times[i].c]

\* C13: a sweep in which no backend operation fails ends in Done, with every
\* size of counts processed exactly once and in the order of the list.
C13_Terminates ==
    <>(failed \/ (pc = "done" /\ Sizes(write_times) = Counts /\ Sizes(read_times) = Counts))

\* Done reached with no failure on the way
C13_Witness ==
    /\ pc = "done"
    /\ ~failed
    /\ Sizes(write_times) = Counts
    /\ Len(Counts) > 1

\* the blob that adapt_array returned, handed to convert_array as it is
WholeBlob == arg_blob.some /\ arr.ok /\ arg_blob.bytes = arr.bytes

\* C14: for every float array v, of any length, zero included,
\* convert_array(adapt_array(v)) has the length of v and the elements of v.
C14_RoundTrip ==
    (pc \in {"decoded", "raised"} /\ arg_array.kind = "float" /\ WholeBlob) =>
        /\ dec.ok
        /\ Len(dec.vec) = Len(arg_array.items)
        /\ \A i \in 1..Len(arg_array.items) : dec.vec[i] = arg_array.items[i]

\* an array of the greatest length with an element of more than one byte came back
C14_Witness ==
    /\ pc = "decoded"
    /\ arg_array.kind = "float"
    /\ WholeBlob
    /\ Len(arg_array.items) = MaxArrayLen
    /\ arg_array.items[1] = ByteBase + 1
    /\ dec.vec = arg_array.items

\* C16: convert_array of a blob that is cut short (in the header or in the
\* payload), is None or empty, or is not an .npy stream fails and returns no
\* vector.
C16_TruncatedFails ==
    (pc \in {"decoded", "raised"} /\ arr.ok /\ ~WholeBlob) =>
        /\ pc = "raised"
        /\ ~dec.ok
        /\ dec.vec = <<>>

\* the header is whole and fewer payload bytes follow than it declares
C16_Witness ==
    /\ pc = "raised"
    /\ arr.ok
    /\ arg_blob.some
    /\ Len(arg_blob.bytes) > 3
    /\ Len(arg_blob.bytes) < Len(arr.bytes)
    /\ ~dec.ok

\* C17: adapt_array returns bytes for every float array, and for an argument
\* that is not a numeric array it fails and returns no bytes.
C17_EncodeTotal ==
    (pc # "codec") =>
        /\ arg_array.kind = "float" => (arr.ok /\ arr.bytes # <<>>)
        /\ arg_array.kind # "float" => (~arr.ok /\ arr.bytes = <<>>)

Completed(k) == k < Len(yielded) \/ pc = "generated"

\* C18: for every n >= 0 and every dim, embeddings(n, dim) yields exactly n
\* items, the i-th with key str(i-1) and a vector of dim elements, and
\* invoking it again with the same arguments yields the same keys and lengths.
C18_Generator ==
    /\ \A k \in 1..Len(yielded) :
          /\ Len(yielded[k]) <= n
          /\ Completed(k) => Len(yielded[k]) = n
          /\ \A i \in 1..Len(yielded[k]) : yielded[k][i] = [key |-> Str(i - 1), len |-> dim]
    /\ \A j, k \in 1..Len(yielded) : (Completed(j) /\ Completed(k)) => yielded[j] = yielded[k]

\* two invocations with the greatest n have run to their end
C18_Witness ==
    /\ pc = "generated"
    /\ n = MaxGenN
    /\ dim = MaxGenDim
    /\ Len(yielded) > 1
    /\ Len(yielded[1]) = n
    /\ Len(yielded[Len(yielded)]) = n

FootprintNotebooks == {"leveldb", "sqlite_file"}

\* C19: in the LevelDB and the file-based SQLite notebook every iteration
\* appends exactly one entry to db_sizes, after its read loop has ended, so
\* that the entries are aligned with counts and at Done there is one per size.
C19_OneFootprintPerSize ==
    /\ [](nb \in FootprintNotebooks =>
            /\ pc \in SweepPhases => Len(db_sizes) = ci - 1
            /\ pc = "done" => Len(db_sizes) = Len(Counts))
    /\ [][(nb \in FootprintNotebooks /\ db_sizes' # db_sizes) =>
            /\ pc = "measuring"
            /\ Len(read_times) = ci
            /\ Len(db_sizes') = ci
            /\ SubSeq(db_sizes', 1, Len(db_sizes)) = db_sizes]_vars

\* the file-based SQLite sweep at Done, its footprints recorded
C19_Witness ==
    /\ pc = "done"
    /\ nb = "sqlite_file"
    /\ Len(db_sizes) = Len(Counts)
    /\ Len(Counts) > 1

\* every a of the trace comes before every b
Before(a, b) ==
    \A i, j \in 1..Len(trace) : (trace[i] = a /\ trace[j] = b) => i < j

\* the i-th event lies in the interval opened by start and not yet closed by stop
Within(i, start, stop) ==
    \E s \in 1..(i - 1) :
        /\ trace[s] = start
        /\ \A t \in s..i : trace[t] # stop

\* C20: the write timer is started after the reset and stopped before the
\* first get; the read timer is started after the write time was recorded
\* and stopped before the connection is closed and the footprint measured;
\* reset, close and measurement lie in neither timed interval.
C20_TimedIntervals ==
    /\ Before("reset", "start_write")
    /\ Before("stop_write", "get")
    /\ Before("stop_write", "start_read")
    /\ Before("stop_read", "close")
    /\ Before("stop_read", "measure")
    /\ \A i \in 1..Len(trace) :
          /\ trace[i] \in {"reset", "close", "measure"} =>
                (~Within(i, "start_write", "stop_write") /\ ~Within(i, "start_read", "stop_read"))
          /\ trace[i] = "get" => ~Within(i, "start_write", "stop_write")
          /\ trace[i] = "put" => Within(i, "start_write", "stop_write")

\* a LevelDB iteration with both loops timed, the connection closed and the
\* footprint measured
C20_Witness ==
    /\ nb = "leveldb"
    /\ Len(trace) > 0
    /\ trace[Len(trace)] = "measure"
    /\ \E i, j \in 1..Len(trace) : trace[i] = "put" /\ trace[j] = "get"

\* C21: every value appended to write_times and to read_times by the sweep
\* is non-negative.
C21_NonNegative ==
    /\ \A i \in 1..Len(write_times) : write_times[i].t >= 0
    /\ \A i \in 1..Len(read_times) : read_times[i].t >= 0

IsPrefix(a, b) == Len(a) <= Len(b) /\ SubSeq(b, 1, Len(a)) = a

\* C22: once appended, an entry of write_times, read_times or db_sizes keeps
\* its value and its position for the rest of the sweep: every step leaves
\* each list a prefix of what it becomes.
C22_AppendOnly ==
    [][/\ IsPrefix(write_times, write_times')
       /\ IsPrefix(read_times, read_times')
       /\ IsPrefix(db_sizes, db_sizes')]_vars

\* every list holds a first entry that later appends have left in place
C22_Witness ==
    /\ pc = "done"
    /\ Len(write_times) > 1
    /\ Len(read_times) > 1
    /\ Len(db_sizes) > 1
    /\ write_times[1].c = Counts[1]

\* every value put by the running write phase is adapt_array of its vector,
\* every value the backend holds is the adapt_array encoding of the vector
\* convert_array makes of it, and every value a get has found was passed
\* through convert_array
CodecOnDataPath ==
    /\ \A i \in 1..Len(wput) : wput[i].val = adapt_array(wput[i].emb)
    /\ \A i \in 1..Len(store) :
          /\ store[i].kind = "npy"
          /\ LET e == convert_array([some |-> TRUE, bytes |-> store[i].val]) IN
                 e.ok /\ store[i].val = adapt_array(e.vec)
    /\ (last.op = "get" /\ last.some) => (last.decoded /\ last.emb.ok)

\* C23 as stated: in all notebooks the same codec pair is on the data path.
C23_SameCodec == CodecOnDataPath

\* C23: in the five notebooks that define the codec pair (LevelDB, MongoDB,
\* MySQL, file-based and in-memory SQLite) every value put in a write phase
\* is adapt_array of the generated vector and every value a get finds is
\* passed through convert_array; the Postgres notebook is the exception.
C23_CodecExceptPostgres == nb # "postgres" => CodecOnDataPath

\* a value that a MySQL write phase encoded has been read back and decoded
C23_Witness ==
    /\ nb = "mysql"
    /\ pc = "reading"
    /\ last.op = "get"
    /\ last.some
    /\ last.decoded
    /\ Len(wput) = Counts[ci]

\* the position in wkeys of key k
WrittenAt(k) == {i \in 1..Len(wkeys) : wkeys[i] = k}

\* C24: in Reading(size) the value a get finds under key k is the value that
\* Writing(size) of the same iteration put under k, and it decodes to the
\* vector that was written.
C24_ReadsWhatWasWritten ==
    (pc \in {"reading", "measuring"} /\ last.op = "get" /\ last.some) =>
        \E i \in WrittenAt(last.key) :
            /\ last.bytes = wput[i].val
            /\ Decoded([kind |-> Adapt(nb, wput[i].emb).kind, val |-> last.bytes])
                   = [ok |-> TRUE, vec |-> wput[i].emb]
            /\ last.decoded => last.emb = [ok |-> TRUE, vec |-> wput[i].emb]

\* a LevelDB get in an iteration whose reset had left the earlier records in
\* place
C24_Witness ==
    /\ nb = "leveldb"
    /\ pc = "reading"
    /\ prev_keys # {}
    /\ Len(store) > 0
    /\ last.op = "get"
    /\ last.some
    /\ last.bytes = wput[1].val

\* C25: whenever the sweep has stopped, in Done or aborted by a failure,
\* write_times and read_times have the same length.
C25_CompleteResults ==
    pc \in {"done", "aborted"} => Len(write_times) = Len(read_times)

Loops == {"cell_write", "cell_read", "writing", "reading"}

\* C26: in the LevelDB notebook executed top to bottom the connection is open
\* whenever a put or a get is issued, it is closed when the reset statements
\* remove the directory and open the next connection (so never two are
\* open), it is closed when the footprint is measured, and it is closed at
\* Done.
C26_ConnectionDiscipline ==
    /\ [](nb = "leveldb" =>
            /\ pc \in Loops => conn
            /\ pc \in {"closed", "preparing", "done"} => ~conn)
    /\ [][nb = "leveldb" =>
            /\ (pc = "preparing" /\ pc' # pc) => ~conn
            /\ (pc \in Loops /\ (idx' # idx \/ last' # last)) => (conn /\ conn')
            /\ db_sizes' # db_sizes => ~conn']_vars

\* the second connection of the sweep was opened, used and closed
C26_Witness ==
    /\ nb = "leveldb"
    /\ pc = "done"
    /\ ~conn
    /\ Len(db_sizes) > 1
    /\ Len(rkeys) > 0

\* puts less commits among the first i events of the trace
RECURSIVE Uncommitted(_)
Uncommitted(i) ==
    IF i = 0 THEN 0
    ELSE Uncommitted(i - 1) + (CASE trace[i] = "put" -> 1 [] trace[i] = "commit" -> 0 - 1 [] OTHER -> 0)

Committing == {"mysql", "postgres", "sqlite_file"}

\* C27: in the MySQL, Postgres and file-based SQLite sweeps every insert is
\* committed before the next insert is issued: at most one record is
\* uncommitted at any time, none when an insert is issued, and none from the
\* end of the write loop on, so none when the first get is issued.
C27_CommitPerInsert ==
    nb \in Committing =>
        \A i \in 1..Len(trace) :
            /\ Uncommitted(i) \in {0, 1}
            /\ trace[i] = "put" => Uncommitted(i - 1) = 0
            /\ trace[i] \in {"stop_write", "start_read", "get", "stop_read"} =>
                  Uncommitted(i) = 0

\* a get of a Postgres read phase, every insert before it committed
C27_Witness ==
    /\ nb = "postgres"
    /\ pc = "reading"
    /\ ci = Len(Counts)
    /\ Len(trace) > 0
    /\ trace[Len(trace)] = "get"
    /\ Cardinality({i \in 1..Len(trace) : trace[i] = "commit"}) = Counts[ci]

\* C28: a step of the read phase leaves the rows of the backend as they are:
\* the stored keys and the value stored under each key are the same at the
\* end of Reading(size) as at its start.
C28_ReadLeavesStore == [][pc = "reading" => store' = store]_vars

\* the end of a read phase that has issued a get for every key, the rows
\* being those the write phase put
C28_Witness ==
    /\ pc = "measuring"
    /\ ~failed
    /\ Len(rkeys) = Len(wkeys)
    /\ Len(rkeys) > 1
    /\ Len(store) = Len(wput)
    /\ \A i \in 1..Len(store) : store[i].val = wput[i].val

\* C29: embeddings(n, dim) terminates for every n: idx starts at 0 and goes
\* up by exactly 1 with every item yielded, never beyond n, and for n <= 0
\* no item is yielded.
C29_GeneratorTerminates ==
    /\ <>(pc = "generated")
    /\ [](n <= 0 => (idx = 0 /\ \A k \in 1..Len(yielded) : yielded[k] = <<>>))
    /\ [](n > 0 => idx <= n)
    /\ [][/\ yielded'[Len(yielded')] # yielded[Len(yielded)] =>
                \/ idx' = idx + 1 /\ Len(yielded'[Len(yielded')]) = idx'
                \/ idx' = 0 /\ yielded'[Len(yielded')] = <<>>
          /\ idx' # idx => (idx' = idx + 1 \/ idx' = 0)]_vars

\* a generator with n below zero has ended with nothing yielded
C29_Witness ==
    /\ pc = "generated"
    /\ n < 0
    /\ idx = 0
    /\ yielded[1] = <<>>

====
